---- MODULE Spec2Model ----
(***************************************************************************)
(* Model of verl/workers/rollout/sglang_rollout/log_manager.py: the        *)
(* process context (_current_step, _current_rank), the SGLangLogManager    *)
(* handle cache with log / close_all, the singleton accessor and the       *)
(* atexit hook.                                                            *)
(*                                                                         *)
(* Four specifications share the variables:                                *)
(*   Spec        every call is one atomic step (one thread of control);    *)
(*   SpecRecord  the same calls, log drawing its arguments from the rich   *)
(*               argument sets (the contents of one written record);       *)
(*   SpecThreads log calls of several threads interleaved statement by     *)
(*               statement;                                                *)
(*   SpecPath    the path resolver under the setters and the environment.  *)
(***************************************************************************)
EXTENDS Integers, Sequences, FiniteSets, TLC

VARIABLES
    phase,          \* "running" | "exited": the process
    _current_step,  \* module global, line 26
    _current_rank,  \* module global, line 27
    _log_manager,   \* module global, line 131: None or <<instance id>>
    file_handles,   \* file_handles[m]: the dict of instance m (path -> handle)
    atexit_hooks,   \* instances whose close_all is registered, in order
    handles,        \* every file object open() returned: [path, owner, closed]
    dirs,           \* directories that exist
    files,          \* files[p]: the lines of the file at p
    files0,         \* files as they were when the process started
    okLogs,         \* okLogs[m][p]: log calls of m on p that returned normally
    nLogs,          \* log calls made so far
    nClose,         \* nClose[m]: close_all calls on m (0, 1, 2 = two or more)
    accessor,       \* get_sglang_log_manager: [calls, made, returned]
    last,           \* the call just made, if a log: arguments, clock, path, error
    raised,         \* whether the last call raised
    pc,             \* pc[t]: the statement thread t is at
    frame,          \* frame[t]: the locals of thread t's log call
    environ,        \* os.environ: SGLANG_PROFILE_LOG_ROOT and EXPERIMENT_NAME
    resolved        \* the last get_sglang_log_path call and what it returned

vars == <<phase, _current_step, _current_rank, _log_manager, file_handles,
          atexit_hooks, handles, dirs, files, files0, okLogs, nLogs, nClose,
          accessor, last, raised, pc, frame, environ, resolved>>

\* What the path resolver reads and leaves behind.
resolver == <<environ, resolved>>

(***************************************************************************)
(* Bounds and input sets.                                                  *)
(***************************************************************************)
MaxLogs == 2
MaxManagers == 2
MaxRecordLogs == 1
MaxKeywords == 2
MaxThreadCalls == 1

None == <<>>
Some(v) == <<v>>
IsNone(x) == x = None
Val(x) == x[1]

\* A path is the sequence of its components; "w.jsonl" names no directory.
Paths == { <<"logs", "step_0", "a.jsonl">>, <<"logs", "b.jsonl">>, <<"w.jsonl">> }
Steps == {0, 3}
Ranks == {0, 1}
Timestamps == {100}
Threads == {1, 2}

\* Explicit step and rank arguments of the path resolver, and its environment.
MaxPathInt == 11
PathInts == {-MaxPathInt, -1, 0, 1, MaxPathInt}
LogDirs == { <<>>, <<"d">> }
EnvRoots == { None, Some(<<>>), Some(<<"/", "r">>) }
EnvNames == { None, Some(<<"x">>) }
Managers == 1..MaxManagers
\* The I/O call the environment makes fail during one log call, if any.
Faults == {"none", "makedirs", "open", "write"}

\* The exception a call ends with: the statement that raised and its type.
NoError == [at |-> "none", exc |-> "none"]
Error(at, exc) == [at |-> at, exc |-> exc]

\* The record a previous process left in a file.
PriorLine == [json |-> << <<"timestamp", 99>>, <<"step", 0>>, <<"worker", 0>>,
                          <<"event", 1>> >>, eol |-> TRUE]

(***************************************************************************)
(* Python dicts keep insertion order; assigning to a key that is present   *)
(* replaces its value in place.  A dict is a sequence of <<key, value>>.   *)
(***************************************************************************)
DictKeys(d) == [i \in 1..Len(d) |-> d[i][1]]
DictHas(d, k) == \E i \in 1..Len(d) : d[i][1] = k
DictGet(d, k) == d[CHOOSE i \in 1..Len(d) : d[i][1] = k][2]
DictSet(d, k, v) ==
    IF DictHas(d, k)
    THEN [i \in 1..Len(d) |-> IF d[i][1] = k THEN <<k, v>> ELSE d[i]]
    ELSE Append(d, <<k, v>>)

RECURSIVE DictUpdate(_, _)
DictUpdate(d, kvs) ==
    IF kvs = <<>> THEN d
    ELSE DictUpdate(DictSet(d, Head(kvs)[1], Head(kvs)[2]), Tail(kvs))

\* os.path.dirname
Dirname(p) == SubSeq(p, 1, Len(p) - 1)
Ancestors(d) == { SubSeq(d, 1, n) : n \in 1..Len(d) }

(***************************************************************************)
(* The record of one log call, lines 103-121.  a is the call's arguments:  *)
(* [event, duration, extra, workid, step, extra_keys], an omitted optional *)
(* argument being None and extra_keys the keyword fields in call order.    *)
(***************************************************************************)
ReservedKeys == <<"timestamp", "step", "worker", "event", "duration_sec">>
IsReserved(k) == \E i \in 1..Len(ReservedKeys) : ReservedKeys[i] = k

step_val(step, cur_step) == IF ~IsNone(step) THEN Val(step) ELSE cur_step
worker_val(workid, cur_rank) == IF ~IsNone(workid) THEN Val(workid) ELSE cur_rank

log_entry(a, now, cur_step, cur_rank) ==
    LET e0 == << <<"timestamp", now>>,
                 <<"step", step_val(a.step, cur_step)>>,
                 <<"worker", worker_val(a.workid, cur_rank)>>,
                 <<"event", a.event>> >>
        e1 == IF ~IsNone(a.duration)
              THEN DictSet(e0, "duration_sec", Val(a.duration)) ELSE e0
        e2 == IF ~IsNone(a.extra) THEN DictSet(e1, "extra", Val(a.extra)) ELSE e1
    IN  DictUpdate(e2, a.extra_keys)

NotReserved(k) == ~IsReserved(k)
ordered_keys(entry) == ReservedKeys \o SelectSeq(DictKeys(entry), NotReserved)

RECURSIVE PickKeys(_, _)
PickKeys(entry, keys) ==
    IF keys = <<>> THEN <<>>
    ELSE IF DictHas(entry, Head(keys))
         THEN <<<<Head(keys), DictGet(entry, Head(keys))>>>>
              \o PickKeys(entry, Tail(keys))
         ELSE PickKeys(entry, Tail(keys))

ordered_entry(entry) == PickKeys(entry, ordered_keys(entry))

\* json.dumps(ordered_entry) + "\n": the object's members in the dict's
\* order, ended by the newline.
json_line(entry) == [json |-> entry, eol |-> TRUE]

\* Values json has no encoding for (an object, a set, ...).
NotSerializable == {-1}

\* A json.dumps that encodes whatever it is given (default=str).
json_dumps_lenient(entry) ==
    [ok |-> TRUE, text |-> json_line(entry), error |-> NoError]

\* json.dumps(ordered_entry) + "\n", line 122: the whole text or a TypeError
json_dumps(entry) ==
    IF \E i \in 1..Len(entry) : entry[i][2] \in NotSerializable
    THEN [ok |-> FALSE, text |-> <<>>, error |-> Error("dumps", "TypeError")]
    ELSE [ok |-> TRUE, text |-> json_line(entry), error |-> NoError]

(***************************************************************************)
(* The path resolver, lines 30-75.  Its strings are sequences of           *)
(* characters, so that formatting and joining are computed, not assumed.   *)
(***************************************************************************)
DigitChars == <<"0", "1", "2", "3", "4", "5", "6", "7", "8", "9">>

RECURSIVE Digits(_)
Digits(n) ==
    IF n < 10 THEN <<DigitChars[n + 1]>>
    ELSE Digits(n \div 10) \o <<DigitChars[(n % 10) + 1]>>

\* An int formatting that loses the sign.
IntToStrUnsigned(n) == IF n < 0 THEN Digits(-n) ELSE Digits(n)

\* f"{n}" for an int n
IntToStr(n) == IF n < 0 THEN <<"-">> \o Digits(-n) ELSE Digits(n)

\* posixpath.join(a, b)
PathJoin(a, b) ==
    IF b # <<>> /\ b[1] = "/" THEN b
    ELSE IF a = <<>> \/ a[Len(a)] = "/" THEN a \o b
    ELSE a \o <<"/">> \o b

DefaultRoot == <<"l", "o", "g", "s">>
DefaultName == <<"m", "u", "l", "t", "i", "t", "u", "r", "n", "_",
                 "l", "o", "g", "_", "d", "i", "r">>

\* os.getenv(key, default) on a variable that is unset (None) or set
Getenv(v, default) == IF v # None THEN Val(v) ELSE default

\* get_sglang_log_dir, lines 30-36
get_sglang_log_dir(env) ==
    LET root == Getenv(env.root, <<>>)
        name == Getenv(env.name, DefaultName)
    IN  IF root # <<>> THEN PathJoin(root, name)
        ELSE PathJoin(DefaultRoot, name)

\* build_profile_log_path, lines 61-63
build_profile_log_path(log_dir, step, rank) ==
    PathJoin(PathJoin(log_dir, <<"s", "t", "e", "p", "_">> \o IntToStr(step)),
             <<"w", "o", "r", "k", "e", "r", "_">> \o IntToStr(rank)
                \o <<".", "j", "s", "o", "n", "l">>)

\* A resolver that takes an argument only when it is truthy.
get_sglang_log_path_truthy(step, rank, log_dir, cur_step, cur_rank, env) ==
    build_profile_log_path(
        IF log_dir # None /\ Val(log_dir) # <<>> THEN Val(log_dir)
        ELSE get_sglang_log_dir(env),
        IF step # None /\ Val(step) # 0 THEN Val(step) ELSE cur_step,
        IF rank # None /\ Val(rank) # 0 THEN Val(rank) ELSE cur_rank)

\* get_sglang_log_path, lines 66-75
get_sglang_log_path(step, rank, log_dir, cur_step, cur_rank, env) ==
    LET step_val_ == IF step # None THEN Val(step) ELSE cur_step
        rank_val_ == IF rank # None THEN Val(rank) ELSE cur_rank
        base == IF log_dir # None THEN Val(log_dir) ELSE get_sglang_log_dir(env)
    IN  build_profile_log_path(base, step_val_, rank_val_)

(***************************************************************************)
(* Files and handles.  A handle is [path, owner, closed]; the handle       *)
(* returned by the n-th open() of the process has id n.                    *)
(***************************************************************************)
\* os.makedirs(d, exist_ok=True): d = "" raises FileNotFoundError.
Makedirs(ds, d, fault) ==
    IF d = <<>>
    THEN [ok |-> FALSE, dirs |-> ds, error |-> Error("makedirs", "FileNotFoundError")]
    ELSE IF fault = "makedirs"
    THEN [ok |-> FALSE, dirs |-> ds, error |-> Error("makedirs", "OSError")]
    ELSE [ok |-> TRUE, dirs |-> ds \cup Ancestors(d), error |-> NoError]

\* open() in write mode, which truncates the file.
OpenModeTruncate == "w"

\* The mode of open(), line 88.
OpenMode == "a"

FileOpened(content, mode) == IF mode = "w" THEN <<>> ELSE content

\* open(log_path, OpenMode, buffering=1)
FileOpen(hs, fs, m, log_path, fault) ==
    IF fault = "open"
    THEN [ok |-> FALSE, handles |-> hs, files |-> fs,
          error |-> Error("open", "OSError")]
    ELSE [ok |-> TRUE,
          handles |-> Append(hs, [path |-> log_path, owner |-> m, closed |-> FALSE]),
          files |-> [fs EXCEPT ![log_path] = FileOpened(@, OpenMode)],
          error |-> NoError]

\* handle.write(text): ValueError on a closed file; the line-buffered handle
\* passes a text ending in a newline on to the file at once, and an I/O
\* error of that write-through is raised by write() with the file as it was.
FileWrite(hs, fs, h, text, fault) ==
    IF hs[h].closed
    THEN [ok |-> FALSE, files |-> fs, error |-> Error("write", "ValueError")]
    ELSE IF fault = "write"
    THEN [ok |-> FALSE, files |-> fs, error |-> Error("write", "OSError")]
    ELSE [ok |-> TRUE, files |-> [fs EXCEPT ![hs[h].path] = Append(@, text)],
          error |-> NoError]

\* handle.flush(): ValueError on a closed file, else nothing is pending.
FileFlush(hs, h) == [ok |-> ~hs[h].closed]

\* handle.close(): no effect on a closed file.
FileClose(hd) == IF hd.closed THEN hd ELSE [hd EXCEPT !.closed = TRUE]

\* A lookup that never finds the cached handle.
CacheMissAlways(cache, log_path) == TRUE

\* line 86
CacheMiss(cache, log_path) == log_path \notin DOMAIN cache

\* A get_handle that stores the path's entry before it has a file: on a
\* failure the cache keeps an entry with a handle that was never opened.
get_handle_reserving(cache, hs, ds, fs, m, log_path, fault) ==
    IF CacheMiss(cache, log_path)
    THEN LET mk == Makedirs(ds, Dirname(log_path), fault)
             op == FileOpen(hs, fs, m, log_path, fault)
             broken == Append(hs, [path |-> log_path, owner |-> m, closed |-> TRUE])
         IN  IF ~mk.ok
             THEN [ok |-> FALSE, cache |-> (log_path :> Len(broken)) @@ cache,
                   handles |-> broken, dirs |-> ds,
                   files |-> fs, handle |-> 0, error |-> mk.error]
             ELSE IF ~op.ok
             THEN [ok |-> FALSE, cache |-> (log_path :> Len(broken)) @@ cache,
                   handles |-> broken,
                   dirs |-> mk.dirs, files |-> fs, handle |-> 0,
                   error |-> op.error]
             ELSE [ok |-> TRUE,
                   cache |-> (log_path :> Len(op.handles)) @@ cache,
                   handles |-> op.handles, dirs |-> mk.dirs,
                   files |-> op.files, handle |-> Len(op.handles),
                   error |-> NoError]
    ELSE [ok |-> TRUE, cache |-> cache, handles |-> hs, dirs |-> ds,
          files |-> fs, handle |-> cache[log_path], error |-> NoError]

\* get_handle, lines 85-89
get_handle(cache, hs, ds, fs, m, log_path, fault) ==
    IF CacheMiss(cache, log_path)
    THEN LET mk == Makedirs(ds, Dirname(log_path), fault)
             op == FileOpen(hs, fs, m, log_path, fault)
         IN  IF ~mk.ok
             THEN [ok |-> FALSE, cache |-> cache, handles |-> hs, dirs |-> ds,
                   files |-> fs, handle |-> 0, error |-> mk.error]
             ELSE IF ~op.ok
             THEN [ok |-> FALSE, cache |-> cache, handles |-> hs,
                   dirs |-> mk.dirs, files |-> fs, handle |-> 0,
                   error |-> op.error]
             ELSE [ok |-> TRUE,
                   cache |-> (log_path :> Len(op.handles)) @@ cache,
                   handles |-> op.handles, dirs |-> mk.dirs,
                   files |-> op.files, handle |-> Len(op.handles),
                   error |-> NoError]
    ELSE [ok |-> TRUE, cache |-> cache, handles |-> hs, dirs |-> ds,
          files |-> fs, handle |-> cache[log_path], error |-> NoError]

\* A close_all that flushes each handle before closing it.
close_all_flushing(cache, hs) ==
    [ok |-> \A p \in DOMAIN cache : FileFlush(hs, cache[p]).ok,
     handles |-> [h \in 1..Len(hs) |->
                    IF \E p \in DOMAIN cache : cache[p] = h
                    THEN FileClose(hs[h]) ELSE hs[h]]]

\* close_all, lines 125-127: closes the cached handles, one after the other.
close_all(cache, hs) ==
    [ok |-> TRUE,
     handles |-> [h \in 1..Len(hs) |->
                    IF \E p \in DOMAIN cache : cache[p] = h
                    THEN FileClose(hs[h]) ELSE hs[h]]]

\* A constructor that registers no exit hook.
init_manager_unregistered(fhs, hooks) ==
    [file_handles |-> Append(fhs, <<>>),
     atexit_hooks |-> hooks,
     self |-> Len(fhs) + 1]

\* SGLangLogManager.__init__, lines 81-83
init_manager(fhs, hooks) ==
    [file_handles |-> Append(fhs, <<>>),
     atexit_hooks |-> Append(hooks, Len(fhs) + 1),
     self |-> Len(fhs) + 1]

\* An accessor that constructs on every call.
NeedsManagerAlways(mgr) == TRUE

\* line 137
NeedsManager(mgr) == IsNone(mgr)

\* get_sglang_log_manager, lines 134-139
get_sglang_log_manager(mgr, fhs, hooks) ==
    IF NeedsManager(mgr)
    THEN LET new == init_manager(fhs, hooks)
         IN  [_log_manager |-> Some(new.self), file_handles |-> new.file_handles,
              atexit_hooks |-> new.atexit_hooks, made |-> 1, ret |-> new.self]
    ELSE [_log_manager |-> mgr, file_handles |-> fhs, atexit_hooks |-> hooks,
          made |-> 0, ret |-> Val(mgr)]

\* The interpreter's exit: the registered hooks run, last registered first.
RECURSIVE RunExitHooks(_, _, _)
RunExitHooks(hooks, fhs, hs) ==
    IF hooks = <<>> THEN hs
    ELSE RunExitHooks(SubSeq(hooks, 1, Len(hooks) - 1), fhs,
                      close_all(fhs[hooks[Len(hooks)]], hs).handles)

(***************************************************************************)
(* Initial states: a fresh process; the file system is empty, or holds a   *)
(* log file written by an earlier process.                                 *)
(***************************************************************************)
NoFiles == [p \in Paths |-> <<>>]
PriorPath == <<"logs", "step_0", "a.jsonl">>
InitFileSystems ==
    { [dirs |-> {}, files |-> NoFiles],
      [dirs |-> Ancestors(Dirname(PriorPath)),
       files |-> [NoFiles EXCEPT ![PriorPath] = <<PriorLine>>]] }

NoArgs == [event |-> 0, duration |-> None, extra |-> None, workid |-> None,
           step |-> None, extra_keys |-> <<>>]
LogCall(args, now, path, error) ==
    [args |-> args, now |-> now, path |-> path, error |-> error]
\* The value of last when the call just made was not a log call.
NoLogCall == LogCall(NoArgs, 0, <<>>, NoError)
NoFrame == [path |-> <<>>, args |-> NoArgs, fault |-> "none", handle |-> 0,
            text |-> <<>>, calls |-> 0]

NoEnviron == [root |-> None, name |-> None]
\* A resolver call: its arguments, what it read of the globals and of the
\* environment (None where the argument made it read nothing), its result.
NoPathCall == [step |-> None, rank |-> None, log_dir |-> None,
               read_step |-> None, read_rank |-> None, read_dir |-> None,
               ret |-> <<>>]

Init ==
    /\ phase = "running"
    /\ _current_step = 0
    /\ _current_rank = 0
    /\ _log_manager = None
    /\ file_handles = <<>>
    /\ atexit_hooks = <<>>
    /\ handles = <<>>
    /\ \E fs \in InitFileSystems : dirs = fs.dirs /\ files = fs.files /\ files0 = fs.files
    /\ okLogs = [m \in Managers |-> [p \in Paths |-> 0]]
    /\ nLogs = 0
    /\ nClose = [m \in Managers |-> 0]
    /\ accessor = [calls |-> 0, made |-> 0, returned |-> {}]
    /\ last = NoLogCall
    /\ raised = FALSE
    /\ pc = [t \in Threads |-> "idle"]
    /\ frame = [t \in Threads |-> NoFrame]
    /\ environ = NoEnviron
    /\ resolved = NoPathCall

Bump(n) == IF n < 2 THEN n + 1 ELSE 2

(***************************************************************************)
(* The calls, each one atomic step.  Callers reach the manager through     *)
(* get_sglang_log_manager().                                               *)
(***************************************************************************)
\* A setter that starts each step with an empty cache.
set_sglang_rollout_step_evicting(step) ==
    /\ phase = "running"
    /\ _current_step' = step
    /\ raised' = FALSE
    /\ file_handles' = [m \in DOMAIN file_handles |->
                            IF step # _current_step THEN <<>> ELSE file_handles[m]]
    /\ last' = NoLogCall
    /\ UNCHANGED <<phase, _current_rank, _log_manager, atexit_hooks,
                   handles, dirs, files, files0, okLogs, nLogs, nClose, accessor,
                   pc, frame, resolver>>

\* lines 49-52
set_sglang_rollout_step(step) ==
    /\ phase = "running"
    /\ _current_step' = step
    /\ raised' = FALSE
    /\ last' = NoLogCall
    /\ UNCHANGED <<phase, _current_rank, _log_manager, file_handles, atexit_hooks,
                   handles, dirs, files, files0, okLogs, nLogs, nClose, accessor,
                   pc, frame, resolver>>

\* lines 55-58
set_sglang_rollout_rank(rank) ==
    /\ phase = "running"
    /\ _current_rank' = rank
    /\ raised' = FALSE
    /\ last' = NoLogCall
    /\ UNCHANGED <<phase, _current_step, _log_manager, file_handles, atexit_hooks,
                   handles, dirs, files, files0, okLogs, nLogs, nClose, accessor,
                   pc, frame, resolver>>

GetManager ==
    /\ phase = "running"
    /\ LET r == get_sglang_log_manager(_log_manager, file_handles, atexit_hooks)
       IN  /\ Len(r.file_handles) <= MaxManagers
           /\ _log_manager' = r._log_manager
           /\ file_handles' = r.file_handles
           /\ atexit_hooks' = r.atexit_hooks
           /\ accessor' = [calls |-> Bump(accessor.calls),
                           made |-> accessor.made + r.made,
                           returned |-> accessor.returned \cup {r.ret}]
    /\ raised' = FALSE
    /\ last' = NoLogCall
    /\ UNCHANGED <<phase, _current_step, _current_rank, handles, dirs, files,
                   files0, okLogs, nLogs, nClose, pc, frame, resolver>>

\* A log that catches what its I/O raises and returns None.
RaisesNothing(error) == FALSE

\* Lines 101-123 hold no try/except: an exception ends the call.
Raises(error) == error # NoError

\* log, lines 91-123, on instance m
log(m, log_path, a, now, fault) ==
    LET g == get_handle(file_handles[m], handles, dirs, files, m, log_path, fault)
        d == json_dumps(ordered_entry(log_entry(a, now, _current_step, _current_rank)))
        w == IF ~g.ok THEN [ok |-> FALSE, files |-> g.files, error |-> g.error]
             ELSE IF ~d.ok THEN [ok |-> FALSE, files |-> g.files, error |-> d.error]
             ELSE FileWrite(g.handles, g.files, g.handle, d.text, fault)
        error == IF ~w.ok THEN w.error
                 ELSE IF ~FileFlush(g.handles, g.handle).ok
                 THEN Error("flush", "ValueError") ELSE NoError
        ok == ~Raises(error)
    IN  /\ file_handles' = [file_handles EXCEPT ![m] = g.cache]
        /\ handles' = g.handles
        /\ dirs' = g.dirs
        /\ files' = w.files
        /\ okLogs' = IF ok THEN [okLogs EXCEPT ![m][log_path] = @ + 1] ELSE okLogs
        /\ nLogs' = nLogs + 1
        /\ last' = LogCall(a, now, log_path, error)
        /\ raised' = ~ok
        /\ UNCHANGED <<phase, _current_step, _current_rank, _log_manager,
                       atexit_hooks, files0, nClose, accessor, pc, frame, resolver>>

LifecycleArgs == { [NoArgs EXCEPT !.event = 1] }

\* Calls whose record json cannot encode: through extra, through a keyword field.
BadArgs == { [NoArgs EXCEPT !.event = 1, !.extra = Some(-1)],
             [NoArgs EXCEPT !.event = 1, !.extra_keys = << <<"tool", -1>> >>] }

Log ==
    /\ phase = "running"
    /\ nLogs < MaxLogs
    /\ ~IsNone(_log_manager)
    /\ \E p \in Paths, now \in Timestamps :
        \/ \E a \in LifecycleArgs, fault \in Faults :
                log(Val(_log_manager), p, a, now, fault)
        \* json.dumps raises before handle.write is reached
        \/ \E a \in BadArgs : log(Val(_log_manager), p, a, now, "none")

CloseAll ==
    /\ phase = "running"
    /\ ~IsNone(_log_manager)
    /\ LET m == Val(_log_manager)
           c == close_all(file_handles[m], handles)
       IN  /\ handles' = c.handles
           /\ nClose' = [nClose EXCEPT ![m] = Bump(@)]
           /\ raised' = ~c.ok
    /\ last' = NoLogCall
    /\ UNCHANGED <<phase, _current_step, _current_rank, _log_manager, file_handles,
                   atexit_hooks, dirs, files, files0, okLogs, nLogs, accessor,
                   pc, frame, resolver>>

Exit ==
    /\ phase = "running"
    /\ phase' = "exited"
    /\ handles' = RunExitHooks(atexit_hooks, file_handles, handles)
    /\ nClose' = [m \in Managers |->
                    IF \E i \in 1..Len(atexit_hooks) : atexit_hooks[i] = m
                    THEN Bump(nClose[m]) ELSE nClose[m]]
    /\ raised' = FALSE
    /\ last' = NoLogCall
    /\ UNCHANGED <<_current_step, _current_rank, _log_manager, file_handles,
                   atexit_hooks, dirs, files, files0, okLogs, nLogs, accessor,
                   pc, frame, resolver>>

SetStep == \E s \in Steps : set_sglang_rollout_step(s)
SetRank == \E r \in Ranks : set_sglang_rollout_rank(r)

Next == SetStep \/ SetRank \/ GetManager \/ Log \/ CloseAll \/ Exit

Spec == Init /\ [][Next]_vars

(***************************************************************************)
(* SpecPath: the path resolver under the setters and the environment.      *)
(***************************************************************************)
\* os.environ as the launcher or the caller sets it
SetEnviron ==
    /\ phase = "running"
    /\ \E root \in EnvRoots, name \in EnvNames :
        environ' = [root |-> root, name |-> name]
    /\ UNCHANGED <<phase, _current_step, _current_rank, _log_manager,
                   file_handles, atexit_hooks, handles, dirs, files, files0,
                   okLogs, nLogs, nClose, accessor, last, raised, pc, frame,
                   resolved>>

\* one call get_sglang_log_path(step, rank, log_dir)
GetLogPath ==
    /\ phase = "running"
    /\ \E step \in {None} \cup { Some(i) : i \in PathInts },
          rank \in {None} \cup { Some(i) : i \in PathInts },
          log_dir \in {None} \cup { Some(d) : d \in LogDirs } :
        resolved' = [step |-> step, rank |-> rank, log_dir |-> log_dir,
                     read_step |-> IF step # None THEN None
                                   ELSE Some(_current_step),
                     read_rank |-> IF rank # None THEN None
                                   ELSE Some(_current_rank),
                     read_dir |-> IF log_dir # None THEN None
                                  ELSE Some(get_sglang_log_dir(environ)),
                     ret |-> get_sglang_log_path(step, rank, log_dir,
                                 _current_step, _current_rank, environ)]
    /\ UNCHANGED <<phase, _current_step, _current_rank, _log_manager,
                   file_handles, atexit_hooks, handles, dirs, files, files0,
                   okLogs, nLogs, nClose, accessor, last, raised, pc, frame,
                   environ>>

NextPath == SetStep \/ SetRank \/ SetEnviron \/ GetLogPath

SpecPath == Init /\ [][NextPath]_vars

(***************************************************************************)
(* SpecRecord: the record one log call writes, over the argument sets.     *)
(* A keyword field may carry any name that is not a parameter of log.      *)
(***************************************************************************)
RecordPath == <<"logs", "step_0", "a.jsonl">>
KeywordNames == {"tool", "worker", "duration_sec", "timestamp"}
KeywordValues == {7}
KeywordFields ==
    { kv \in UNION { [1..n -> KeywordNames \X KeywordValues] : n \in 0..MaxKeywords } :
        \A i, j \in 1..Len(kv) : i # j => kv[i][1] # kv[j][1] }
RecordArgs ==
    [event : {1}, duration : {None, Some(5)}, extra : {None, Some(50)},
     workid : {None, Some(0)}, step : {None, Some(0)}, extra_keys : KeywordFields]

LogRecord ==
    /\ phase = "running"
    /\ nLogs < MaxRecordLogs
    /\ ~IsNone(_log_manager)
    /\ \E a \in RecordArgs, now \in Timestamps :
            log(Val(_log_manager), RecordPath, a, now, "none")

NextRecord == SetStep \/ SetRank \/ GetManager \/ LogRecord

SpecRecord == Init /\ [][NextRecord]_vars

(***************************************************************************)
(* SpecThreads: log calls of several threads on the singleton manager.     *)
(* The interpreter may switch threads between any two statements of log    *)
(* and get_handle (and inside line 88, between open() and the store into   *)
(* the dict); each action below is one such statement of thread t.         *)
(***************************************************************************)
Self == Val(_log_manager)

ThreadUnchanged ==
    UNCHANGED <<phase, _current_step, _current_rank, _log_manager, atexit_hooks,
                files0, nClose, accessor, last, resolver>>

\* the thread raises out of log
Raise(t) ==
    /\ pc' = [pc EXCEPT ![t] = "idle"]
    /\ raised' = TRUE

\* t calls log(log_path, event)
ThreadCall(t) ==
    /\ phase = "running"
    /\ ~IsNone(_log_manager)
    /\ pc[t] = "idle"
    /\ frame[t].calls < MaxThreadCalls
    /\ \E p \in Paths, a \in LifecycleArgs, fault \in Faults :
        frame' = [frame EXCEPT ![t] = [path |-> p, args |-> a, fault |-> fault,
                                       handle |-> 0, text |-> <<>>,
                                       calls |-> frame[t].calls + 1]]
    /\ pc' = [pc EXCEPT ![t] = "line86"]
    /\ nLogs' = nLogs + 1
    /\ UNCHANGED <<file_handles, handles, dirs, files, okLogs, raised>>
    /\ ThreadUnchanged

\* line 86: if log_path not in self.file_handles
ThreadCheck(t) ==
    /\ pc[t] = "line86"
    /\ pc' = [pc EXCEPT ![t] =
                IF CacheMiss(file_handles[Self], frame[t].path)
                THEN "line87" ELSE "line89"]
    /\ UNCHANGED <<file_handles, handles, dirs, files, okLogs, nLogs, raised, frame>>
    /\ ThreadUnchanged

\* line 87: os.makedirs(os.path.dirname(log_path), exist_ok=True)
ThreadMakedirs(t) ==
    /\ pc[t] = "line87"
    /\ LET mk == Makedirs(dirs, Dirname(frame[t].path), frame[t].fault)
       IN  /\ dirs' = mk.dirs
           /\ IF mk.ok
              THEN pc' = [pc EXCEPT ![t] = "line88"] /\ UNCHANGED raised
              ELSE Raise(t)
    /\ UNCHANGED <<file_handles, handles, files, okLogs, nLogs, frame>>
    /\ ThreadUnchanged

\* line 88, right-hand side: open(log_path, "a", buffering=1)
ThreadOpen(t) ==
    /\ pc[t] = "line88"
    /\ LET op == FileOpen(handles, files, Self, frame[t].path, frame[t].fault)
       IN  /\ handles' = op.handles
           /\ files' = op.files
           /\ IF op.ok
              THEN /\ pc' = [pc EXCEPT ![t] = "line88store"]
                   /\ frame' = [frame EXCEPT ![t].handle = Len(op.handles)]
                   /\ UNCHANGED raised
              ELSE Raise(t) /\ UNCHANGED frame
    /\ UNCHANGED <<file_handles, dirs, okLogs, nLogs>>
    /\ ThreadUnchanged

\* line 88, the store: self.file_handles[log_path] = <the new handle>
ThreadStore(t) ==
    /\ pc[t] = "line88store"
    /\ file_handles' = [file_handles EXCEPT
                          ![Self] = (frame[t].path :> frame[t].handle) @@ @]
    /\ pc' = [pc EXCEPT ![t] = "line89"]
    /\ UNCHANGED <<handles, dirs, files, okLogs, nLogs, raised, frame>>
    /\ ThreadUnchanged

\* line 89 and line 101: handle = self.file_handles[log_path]
ThreadReturn(t) ==
    /\ pc[t] = "line89"
    /\ frame' = [frame EXCEPT ![t].handle = file_handles[Self][frame[t].path]]
    /\ pc' = [pc EXCEPT ![t] = "line103"]
    /\ UNCHANGED <<file_handles, handles, dirs, files, okLogs, nLogs, raised>>
    /\ ThreadUnchanged

\* lines 103-122: the record and its JSON text
ThreadBuild(t) ==
    /\ pc[t] = "line103"
    /\ \E now \in Timestamps :
        frame' = [frame EXCEPT ![t].text =
            json_line(ordered_entry(log_entry(frame[t].args, now,
                                              _current_step, _current_rank)))]
    /\ pc' = [pc EXCEPT ![t] = "line122"]
    /\ UNCHANGED <<file_handles, handles, dirs, files, okLogs, nLogs, raised>>
    /\ ThreadUnchanged

\* line 122: handle.write(...)
ThreadWrite(t) ==
    /\ pc[t] = "line122"
    /\ LET w == FileWrite(handles, files, frame[t].handle, frame[t].text,
                          frame[t].fault)
       IN  /\ files' = w.files
           /\ IF w.ok
              THEN pc' = [pc EXCEPT ![t] = "line123"] /\ UNCHANGED raised
              ELSE Raise(t)
    /\ UNCHANGED <<file_handles, handles, dirs, okLogs, nLogs, frame>>
    /\ ThreadUnchanged

\* line 123: handle.flush(), and the return
ThreadFlush(t) ==
    /\ pc[t] = "line123"
    /\ LET f == FileFlush(handles, frame[t].handle)
       IN  /\ raised' = ~f.ok
           /\ okLogs' = IF f.ok
                        THEN [okLogs EXCEPT ![Self][frame[t].path] = @ + 1]
                        ELSE okLogs
    /\ pc' = [pc EXCEPT ![t] = "idle"]
    /\ UNCHANGED <<file_handles, handles, dirs, files, nLogs, frame>>
    /\ ThreadUnchanged

NextThreads ==
    \/ GetManager
    \/ \E t \in Threads :
        \/ ThreadCall(t)
        \/ ThreadCheck(t)
        \/ ThreadMakedirs(t)
        \/ ThreadOpen(t)
        \/ ThreadStore(t)
        \/ ThreadReturn(t)
        \/ ThreadBuild(t)
        \/ ThreadWrite(t)
        \/ ThreadFlush(t)

SpecThreads == Init /\ [][NextThreads]_vars

(***************************************************************************)
(* Claims checked under Spec.                                              *)
(***************************************************************************)
NumOpens(m, p) ==
    Cardinality({ h \in 1..Len(handles) :
                    handles[h].path = p /\ handles[h].owner = m })

RECURSIVE SumOk(_, _)
SumOk(p, n) == IF n = 0 THEN 0 ELSE okLogs[n][p] + SumOk(p, n - 1)
\* log calls on p, by any instance, that returned normally
TotalOk(p) == SumOk(p, MaxManagers)

Cached(m) == { file_handles[m][p] : p \in DOMAIN file_handles[m] }
AllCachedClosed(m) == \A h \in Cached(m) : handles[h].closed

\* C1: after N >= 1 log calls of one manager on a path p that returned
\* normally, with no close_all on that manager, exactly one open() was
\* performed for p, the cache holds one handle for p (that one), and exactly
\* N lines were appended to the file at p.
C1_AtMostOneHandle ==
    \A m \in 1..Len(file_handles), p \in Paths :
        (okLogs[m][p] >= 1 /\ nClose[m] = 0) =>
            /\ NumOpens(m, p) = 1
            /\ p \in DOMAIN file_handles[m]
            /\ handles[file_handles[m][p]].path = p
            /\ handles[file_handles[m][p]].owner = m
            /\ Len(files[p]) = Len(files0[p]) + TotalOk(p)
            /\ TotalOk(p) = okLogs[m][p]

C1_Witness ==
    \E m \in 1..Len(file_handles), p \in Paths :
        okLogs[m][p] = 2 /\ nClose[m] = 0

\* C2: right after close_all() returns, every handle that was in the cache
\* is closed and the manager's cache has no entries.
C2_CloseAllEmptiesCache ==
    [][CloseAll =>
        LET m == Val(_log_manager)
        IN  /\ \A h \in Cached(m) : handles'[h].closed
            /\ DOMAIN file_handles'[m] = {}]_vars

\* C5: every log call that returns normally appends exactly one
\* newline-terminated line after the content the file already has, and no
\* call changes or removes earlier content of any file (content present
\* before the handle was opened included).
C5_AppendInCallOrder ==
    [][\A p \in Paths :
        /\ Len(files'[p]) >= Len(files[p])
        /\ SubSeq(files'[p], 1, Len(files[p])) = files[p]
        /\ \A m \in Managers :
            okLogs'[m][p] = okLogs[m][p] + 1 =>
                /\ Len(files'[p]) = Len(files[p]) + 1
                /\ files'[p][Len(files'[p])].eol]_vars

C5_Witness ==
    \E m \in 1..Len(file_handles), p \in Paths :
        /\ files0[p] # <<>>
        /\ okLogs[m][p] = 2
        /\ Len(files[p]) = Len(files0[p]) + 2
        /\ SubSeq(files[p], 1, Len(files0[p])) = files0[p]
        /\ files[p][Len(files[p])] # files[p][Len(files[p]) - 1]

HookCount(m) == Cardinality({ i \in 1..Len(atexit_hooks) : atexit_hooks[i] = m })

\* C6: over any sequence of get_sglang_log_manager() calls the first call
\* constructs the manager and registers its close_all once; every later call
\* returns that instance, constructs nothing and registers nothing.
C6_Singleton ==
    /\ accessor.made <= 1
    /\ Cardinality(accessor.returned) <= 1
    /\ accessor.calls = 0 =>
        /\ IsNone(_log_manager)
        /\ file_handles = <<>>
        /\ atexit_hooks = <<>>
    /\ accessor.calls >= 1 =>
        /\ ~IsNone(_log_manager)
        /\ accessor.made = 1
        /\ accessor.returned = {Val(_log_manager)}
        /\ Len(file_handles) = 1
        /\ atexit_hooks = <<Val(_log_manager)>>

C6_Witness == accessor.calls = 2 /\ ~IsNone(_log_manager)

\* C7: a close_all() that follows a close_all() with no log call in between
\* (every cached handle is then closed already) raises nothing and leaves
\* the manager, the handles and the files as they are.
C7_CloseAllIdempotent ==
    [][\A m \in 1..Len(file_handles) :
        (nClose[m] >= 1 /\ AllCachedClosed(m) /\ nClose'[m] # nClose[m]) =>
            /\ ~raised'
            /\ handles' = handles
            /\ file_handles' = file_handles
            /\ files' = files
            /\ dirs' = dirs]_vars

C7_Witness ==
    \E m \in 1..Len(file_handles) :
        /\ phase = "running"
        /\ nClose[m] = 2
        /\ ~raised
        /\ Cached(m) # {}
        /\ AllCachedClosed(m)

\* C10: once the process has exited normally, every file handle that was
\* ever opened is closed.
C10_ClosedAtExit ==
    phase = "exited" => \A h \in 1..Len(handles) : handles[h].closed

C10_Witness ==
    /\ phase = "exited"
    /\ Len(handles) >= 2
    /\ \E m \in 1..Len(file_handles) : nClose[m] = 1

(***************************************************************************)
(* Claims checked under SpecRecord.                                        *)
(***************************************************************************)
\* The record written by the log call of this step, if it returned normally.
Written(p) == files'[p][Len(files'[p])].json
LoggedOn(p) == \E m \in Managers : okLogs'[m][p] = okLogs[m][p] + 1

\* C8: in every record written by log, the step field is the explicit step
\* argument when one is given and otherwise the current step, and the worker
\* field is the explicit workid argument when given and otherwise the current
\* rank.
C8_ExplicitOrContext ==
    [][\A p \in Paths :
        LoggedOn(p) =>
            LET a == last'.args
            IN  /\ DictGet(Written(p), "step") =
                     (IF a.step # None THEN a.step[1] ELSE _current_step)
                /\ DictGet(Written(p), "worker") =
                     (IF a.workid # None THEN a.workid[1] ELSE _current_rank)]_vars

\* The key order C9 states for a call with arguments a.
ClaimedKeyOrder(a) ==
    LET prefix == <<"timestamp", "step", "worker", "event">>
                  \o (IF a.duration # None THEN <<"duration_sec">> ELSE <<>>)
        rest == (IF a.extra # None THEN <<"extra">> ELSE <<>>)
                \o DictKeys(a.extra_keys)
    IN  prefix \o SelectSeq(rest, LAMBDA k : \A i \in 1..Len(prefix) : prefix[i] # k)

\* C9: the keys of every record written by log are timestamp, step, worker,
\* event, then duration_sec if a duration was given, then the remaining
\* fields in call order.
C9_KeyOrder ==
    [][\A p \in Paths :
        LoggedOn(p) => DictKeys(Written(p)) = ClaimedKeyOrder(last'.args)]_vars

\* C15: in every record written by log the reserved fields are the
\* logger's: timestamp is the clock reading of the call, event is the event
\* argument, and duration_sec is the duration argument (and is absent when
\* no duration was given), whatever keyword fields the caller passed.
C15_ReservedFieldsWin ==
    [][\A p \in Paths :
        LoggedOn(p) =>
            LET a == last'.args
            IN  /\ DictGet(Written(p), "timestamp") = last'.now
                /\ DictGet(Written(p), "event") = a.event
                /\ IF a.duration # None
                   THEN DictGet(Written(p), "duration_sec") = a.duration[1]
                   ELSE ~DictHas(Written(p), "duration_sec")]_vars

(***************************************************************************)
(* Claims checked under SpecThreads.                                       *)
(***************************************************************************)
\* C3: when threads of one process call log concurrently for the same path
\* on the same manager, at most one file handle is ever opened for that
\* path, in every interleaving.
C3_SingleOpenPerPath ==
    \A m \in 1..Len(file_handles), p \in Paths : NumOpens(m, p) <= 1

\* Thread t has obtained its handle and has not finished its flush.
HoldsHandle(t) == pc[t] \in {"line103", "line122", "line123"}

\* C4: no two log calls on the same path are at the same time between
\* obtaining the handle and finishing the flush.
C4_Serialized ==
    \A t1, t2 \in Threads :
        (t1 # t2 /\ HoldsHandle(t1) /\ HoldsHandle(t2)) =>
            frame[t1].path # frame[t2].path

(***************************************************************************)
(* Error handling of log and get_handle, checked under Spec.               *)
(***************************************************************************)
\* This step is one log call.
IsLogCall == nLogs' = nLogs + 1

IOStatements == {"makedirs", "open", "write", "flush"}

\* C11: when directory creation, open, write or flush fails inside a log
\* call, the call raises instead of returning normally, it has opened at most
\* one handle (nothing is tried a second time), and no file, the target or
\* any other, has received anything.
C11_IOErrorPropagates ==
    [][(IsLogCall /\ last'.error.at \in IOStatements) =>
        /\ raised'
        /\ okLogs' = okLogs
        /\ files' = files
        /\ Len(handles') <= Len(handles) + 1
        /\ \A h \in 1..Len(handles) : handles'[h] = handles[h]]_vars

C11_Witness ==
    /\ raised
    /\ last.error = Error("write", "OSError")
    /\ \E m \in 1..Len(file_handles) : last.path \in DOMAIN file_handles[m]
    /\ files = files0

\* The instance every log call of Spec goes to, and the path of this step's.
TheManager == Val(_log_manager)
LoggedPath == last'.path

\* C14: a log call to a path that is not cached yet, with no failure of the
\* environment, makes the path's parent directories exist (creating what is
\* missing, accepting what is there), opens the file and returns normally.
C14_ParentDirsCreated ==
    [][(/\ IsLogCall
        /\ LoggedPath \notin DOMAIN file_handles[TheManager]
        /\ last'.error.exc \notin {"OSError", "TypeError"}) =>
            /\ ~raised'
            /\ Ancestors(Dirname(LoggedPath)) \subseteq dirs'
            /\ LoggedPath \in DOMAIN file_handles'[TheManager]
            /\ ~handles'[file_handles'[TheManager][LoggedPath]].closed]_vars

\* This step is a call of log or of a setter that changed the context.
IsLogOrSetterCall ==
    \/ IsLogCall
    \/ _current_step' # _current_step
    \/ _current_rank' # _current_rank

C17_CachedHandlesOpen ==
    [][/\ phase' = "running" =>
            \A m \in 1..Len(file_handles') :
                \A p \in DOMAIN file_handles'[m] :
                    ~handles'[file_handles'[m][p]].closed
       /\ (/\ IsLogCall
           /\ LoggedPath \in DOMAIN file_handles[TheManager]
           /\ last'.error.exc \notin {"OSError", "TypeError"}) =>
                /\ ~raised'
                /\ Len(files'[LoggedPath]) = Len(files[LoggedPath]) + 1]_vars

\* C18: a log call in which directory creation or open fails leaves every
\* handle cache and the set of handles as they were, the path uncached; and
\* every log call to an uncached path tries directory creation and open: it
\* fails in one of them or caches the handle it has just opened.
C18_FailedOpenNotCached ==
    [][IsLogCall =>
        /\ last'.error.at \in {"makedirs", "open"} =>
            /\ file_handles' = file_handles
            /\ handles' = handles
            /\ LoggedPath \notin DOMAIN file_handles'[TheManager]
        /\ LoggedPath \notin DOMAIN file_handles[TheManager] =>
            \/ last'.error.at \in {"makedirs", "open"}
            \/ /\ Len(handles') = Len(handles) + 1
               /\ LoggedPath \in DOMAIN file_handles'[TheManager]
               /\ file_handles'[TheManager][LoggedPath] = Len(handles')
               /\ Ancestors(Dirname(LoggedPath)) \subseteq dirs']_vars

\* The second call on a path failed in open, after the first had failed in
\* directory creation or open: neither left an entry or a handle.
C18_Witness ==
    /\ nLogs = 2
    /\ raised
    /\ last.error = Error("open", "OSError")
    /\ handles = <<>>
    /\ file_handles[TheManager] = <<>>
    /\ Ancestors(Dirname(last.path)) \subseteq dirs
    /\ files = files0

\* C19: a log call whose record json cannot encode raises the TypeError of
\* json.dumps once it has its handle, whatever the handle's state, and
\* appends nothing to any file; the handle was obtained before: the path is
\* cached, and if it was not, its directories exist and the cache holds the
\* handle the call opened.
C19_UnserializableRecord ==
    [][(IsLogCall /\ last'.args \in BadArgs
                  /\ last'.error.at \notin {"makedirs", "open"}) =>
        /\ last'.error = Error("dumps", "TypeError")
        /\ raised'
        /\ okLogs' = okLogs
        /\ files' = files
        /\ LoggedPath \in DOMAIN file_handles'[TheManager]
        /\ LoggedPath \notin DOMAIN file_handles[TheManager] =>
            /\ Len(handles') = Len(handles) + 1
            /\ file_handles'[TheManager][LoggedPath] = Len(handles')
            /\ ~handles'[Len(handles')].closed
            /\ Ancestors(Dirname(LoggedPath)) \subseteq dirs']_vars

\* The first call, on a new path in an empty file system, could not be encoded.
C19_Witness ==
    /\ nLogs = 1
    /\ raised
    /\ last.error = Error("dumps", "TypeError")
    /\ last.args.extra_keys # <<>>
    /\ files0[last.path] = <<>>
    /\ files[last.path] = <<>>
    /\ Len(handles) = 1
    /\ file_handles[TheManager][last.path] = 1
    /\ Dirname(last.path) \in dirs

(***************************************************************************)
(* Claims checked under SpecPath.                                          *)
(***************************************************************************)
\* The step, rank and directory the last resolver call had to use.
UsedStep == IF resolved.step # None THEN resolved.step[1] ELSE resolved.read_step[1]
UsedRank == IF resolved.rank # None THEN resolved.rank[1] ELSE resolved.read_rank[1]
UsedDir ==
    IF resolved.log_dir # None THEN resolved.log_dir[1] ELSE resolved.read_dir[1]

\* What the last resolver call read is what a call would read now.
SameContext ==
    /\ resolved.read_step \in {None, Some(_current_step)}
    /\ resolved.read_rank \in {None, Some(_current_rank)}
    /\ resolved.read_dir \in {None, Some(get_sglang_log_dir(environ))}

SameArguments ==
    /\ resolved'.step = resolved.step
    /\ resolved'.rank = resolved.rank
    /\ resolved'.log_dir = resolved.log_dir

\* C12: get_sglang_log_path(step, rank, log_dir) returns
\* build_profile_log_path of each argument that was given and, for one that
\* was not, of the step or rank set last or of get_sglang_log_dir(); a call
\* with the arguments of the call before it, with the step, the rank and the
\* environment as they were then, returns the same path.
C12_ResolvesPath ==
    [][(resolved' # resolved) =>
        /\ resolved'.ret =
             build_profile_log_path(
                IF resolved'.log_dir # None THEN resolved'.log_dir[1]
                ELSE get_sglang_log_dir(environ),
                IF resolved'.step # None THEN resolved'.step[1] ELSE _current_step,
                IF resolved'.rank # None THEN resolved'.rank[1] ELSE _current_rank)
        /\ (resolved.ret # <<>> /\ SameArguments /\ SameContext) =>
                resolved'.ret = resolved.ret]_vars

C12_Witness ==
    /\ resolved.ret # <<>>
    /\ resolved.step = Some(0)
    /\ _current_step = 3
    /\ resolved.rank = None
    /\ resolved.read_rank = Some(1)
    /\ resolved.log_dir = None
    /\ resolved.read_dir = Some(<<"/", "r", "/", "x">>)

\* C13: for one log_dir, no (step, rank) other than the pair a path was built
\* from, negative values included, gives that path.
C13_Injective ==
    resolved.ret # <<>> =>
        \A s \in PathInts \cup Steps, r \in PathInts \cup Ranks :
            build_profile_log_path(UsedDir, s, r) = resolved.ret =>
                (s = UsedStep /\ r = UsedRank)

C13_Witness ==
    /\ resolved.ret # <<>>
    /\ resolved.step = Some(-1)
    /\ resolved.rank = Some(-MaxPathInt)
    /\ build_profile_log_path(UsedDir, -1, -MaxPathInt) = resolved.ret
    /\ build_profile_log_path(UsedDir, 1, MaxPathInt) # resolved.ret

====
